---- MODULE Spec2Model ----
(***************************************************************************)
(* Model of NullSpaceMethod (src/src/lexmin.py): the lexicographic         *)
(* multi-objective quadratic solver.  Matrices are sequences of rows of    *)
(* integers; an r-by-0 matrix is r empty rows.  The collaborator           *)
(* affine_null_space is a function of its arguments that is chosen freely  *)
(* among the answers its contract allows (or raises).                      *)
(***************************************************************************)
EXTENDS Integers, Sequences, FiniteSets, TLC

VARIABLES H, f, callerBounds,   \* the caller's objects
          pc, err, ret,         \* position in the call, raised error, returned value
          n, N, Z, bounds, i,   \* locals of NullSpaceMethod
          Hi, fi, Ni, Y,        \* restricted level data and the collaborator's answer
          consulted, callLog,   \* levels pulled from izip(H, f); collaborator calls made
          Nhist, niCols,        \* basis in effect at each processed level; columns of each Ni
          policy, prev          \* the collaborator's rule; the previous call, if any

vars == <<H, f, callerBounds, pc, err, ret, n, N, Z, bounds, i, Hi, fi, Ni, Y,
          consulted, callLog, Nhist, niCols, policy, prev>>

\* ---------------------------------------------------------------- bounds
MaxK == 2        \* longest objective list the caller builds
MaxY == 1        \* largest magnitude of an entry of a particular solution Y

\* ---------------------------------------------------------------- matrices
Rows(M) == Len(M)
Cols(M) == IF Len(M) = 0 THEN 0 ELSE Len(M[1])
Shape(M) == <<Rows(M), Cols(M)>>

Zeros(r, c) == [a \in 1..r |-> [b \in 1..c |-> 0]]
Ones(r, c) == [a \in 1..r |-> [b \in 1..c |-> 1]]
Identity(d) == [a \in 1..d |-> [b \in 1..d |-> IF a = b THEN 1 ELSE 0]]

RECURSIVE SumTo(_, _)
SumTo(s, k) == IF k = 0 THEN 0 ELSE s[k] + SumTo(s, k - 1)
SumSeq(s) == SumTo(s, Len(s))

Transpose(M) == [b \in 1..Cols(M) |-> [a \in 1..Rows(M) |-> M[a][b]]]

\* A.dot(B): defined when the inner dimensions agree
DotOK(A, B) == Cols(A) = Rows(B)
Dot(A, B) == [a \in 1..Rows(A) |-> [b \in 1..Cols(B) |->
                 SumSeq([p \in 1..Cols(A) |-> A[a][p] * B[p][b]])]]

\* numpy addition with broadcasting of axes of length one
Max2(x, y) == IF x >= y THEN x ELSE y
AxisOK(x, y) == x = y \/ x = 1 \/ y = 1
AddOK(A, B) == AxisOK(Rows(A), Rows(B)) /\ AxisOK(Cols(A), Cols(B))
At(M, a, b) == M[IF Rows(M) = 1 THEN 1 ELSE a][IF Cols(M) = 1 THEN 1 ELSE b]
Add(A, B) == [a \in 1..Max2(Rows(A), Rows(B)) |-> [b \in 1..Max2(Cols(A), Cols(B)) |->
                 At(A, a, b) + At(B, a, b)]]

Neg(M) == [a \in 1..Rows(M) |-> [b \in 1..Cols(M) |-> 0 - M[a][b]]]
OneMinus(M) == [a \in 1..Rows(M) |-> [b \in 1..Cols(M) |-> 1 - M[a][b]]]

\* Y.reshape(-1, 1): all entries, row-major, as one column
Flatten(M) == [e \in 1..(Rows(M) * Cols(M)) |->
                 M[((e - 1) \div Cols(M)) + 1][((e - 1) % Cols(M)) + 1]]
Reshape(M) == [e \in 1..(Rows(M) * Cols(M)) |-> <<Flatten(M)[e]>>]

\* ---------------------------------------------------------------- rank
Minor(M, a, b) == [r \in 1..(Rows(M) - 1) |-> [c \in 1..(Cols(M) - 1) |->
                     M[IF r < a THEN r ELSE r + 1][IF c < b THEN c ELSE c + 1]]]

RECURSIVE Det(_)
Det(M) == IF Rows(M) = 0 THEN 1
          ELSE IF Rows(M) = 1 THEN M[1][1]
          ELSE SumSeq([b \in 1..Cols(M) |->
                  (IF b % 2 = 1 THEN 1 ELSE 0 - 1) * M[1][b] * Det(Minor(M, 1, b))])

\* strictly increasing index sequences of length r over 1..k
Increasing(k, r) == {s \in [1..r -> 1..k] : \A a, b \in 1..r : a < b => s[a] < s[b]}
SubMatrix(M, rs, cs) == [a \in 1..Len(rs) |-> [b \in 1..Len(cs) |-> M[rs[a]][cs[b]]]]
HasMinor(M, r) == \E rs \in Increasing(Rows(M), r) : \E cs \in Increasing(Cols(M), r) :
                     Det(SubMatrix(M, rs, cs)) # 0
Min2(x, y) == IF x <= y THEN x ELSE y
Rank(M) == CHOOSE r \in 0..Min2(Rows(M), Cols(M)) :
              /\ HasMinor(M, r)
              /\ \A q \in (r + 1)..Min2(Rows(M), Cols(M)) : ~HasMinor(M, q)

\* ---------------------------------------------------------------- collaborator
\* affine_null_space(H', rhs, method, bounds) -> (Ni, Y): Ni is a basis of the
\* null space of H', Y a particular solution of H' * Y = rhs inside the bounds.
IsPermutation(M) == /\ \A a \in 1..Rows(M) : SumSeq(M[a]) = 1
                    /\ \A b \in 1..Cols(M) : SumSeq(Transpose(M)[b]) = 1
BasisCandidates(m, c) ==
    IF c = 0 THEN {[a \in 1..m |-> <<>>]}
    ELSE IF c = m THEN {B \in [1..m -> [1..m -> {0, 1}]] : IsPermutation(B)}
    ELSE {B \in [1..m -> [1..c -> {0 - 1, 0, 1}]] : Rank(B) = c}
NullBases(Hp) ==
    UNION {{B \in BasisCandidates(Rows(Hp), c) : c = 0 \/ Dot(Hp, B) = Zeros(Rows(Hp), c)} :
              c \in {Rows(Hp) - Rank(Hp)}}

\* bounds are <<>> (None) or <<lower, upper>>; a bound row constrains the
\* coordinate of the same index
InBounds(y, b) == b = <<>> \/ \A j \in 1..Rows(y) :
                     j <= Rows(b[1]) => (b[1][j][1] <= y[j][1] /\ y[j][1] <= b[2][j][1])
ColumnVectors(m) == {[a \in 1..m |-> <<v[a]>>] : v \in [1..m -> (0 - MaxY)..MaxY]}
Norm2(M) == SumSeq([a \in 1..Len(Flatten(M)) |-> Flatten(M)[a] * Flatten(M)[a]])
Feasible(Hp, rhs, b) == {y \in ColumnVectors(Rows(Hp)) : Dot(Hp, y) = rhs /\ InBounds(y, b)}
\* Y is least-norm without bounds, and any solution inside the bounds with them
Solutions(Hp, rhs, b) ==
    IF b = <<>>
    THEN UNION {{y \in F : \A z \in F : Norm2(y) <= Norm2(z)} : F \in {Feasible(Hp, rhs, b)}}
    ELSE Feasible(Hp, rhs, b)

Raises == [raised |-> TRUE, Ni |-> <<>>, Y |-> <<>>, ndim |-> 2]
\* d = 1: the collaborator returns Y as a flat vector; d = 2: as a column
Answers(Hp, rhs, b, d) ==
    {Raises} \cup
    {[raised |-> FALSE, Ni |-> B, Y |-> IF d = 2 THEN y ELSE <<Flatten(y)>>, ndim |-> d] :
        B \in NullBases(Hp), y \in Solutions(Hp, rhs, b)}

\* How the collaborator chooses among the answers its contract allows: a free
\* collaborator may give any of them or raise; a deterministic one applies a
\* fixed rule, and raises exactly when no answer exists.
RECURSIVE LexLeq(_, _)
LexLeq(s, t) == IF s = <<>> THEN TRUE
                ELSE IF Head(s) # Head(t) THEN Head(s) < Head(t)
                ELSE LexLeq(Tail(s), Tail(t))
KeyLeq(A, B) == IF Norm2(A) # Norm2(B) THEN Norm2(A) < Norm2(B)
                ELSE LexLeq(Flatten(A), Flatten(B))
Least(S) == CHOOSE x \in S : \A z \in S : KeyLeq(x, z)
Greatest(S) == CHOOSE x \in S : \A z \in S : KeyLeq(z, x)
FreePolicies == [y : {"free"}, basis : {"free"}, ndim : {1, 2}]
DetPolicies == {q \in [y : {"least", "greatest"}, basis : {"least", "greatest"}, ndim : {1, 2}] :
                   q.ndim = IF q.basis = "least" THEN 1 ELSE 2}
PickBy(rule, S) == IF rule = "least" THEN Least(S) ELSE Greatest(S)
RuleAnswer(S, Bs) ==
    IF S = {} \/ Bs = {}
    THEN {Raises}
    ELSE {[raised |-> FALSE, Ni |-> B,
           Y |-> IF policy.ndim = 2 THEN y ELSE <<Flatten(y)>>, ndim |-> policy.ndim] :
              B \in {PickBy(policy.basis, Bs)}, y \in {PickBy(policy.y, S)}}
affine_null_space(Hp, rhs, b) ==
    IF policy \in FreePolicies
    THEN Answers(Hp, rhs, b, policy.ndim)
    ELSE UNION {RuleAnswer(S, Bs) : S \in {Solutions(Hp, rhs, b)}, Bs \in {NullBases(Hp)}}

\* ---------------------------------------------------------------- caller's inputs
Dims == {1, 2}
Diag1(d) == [a \in 1..d |-> [b \in 1..d |-> IF a = 1 /\ b = 1 THEN 1 ELSE 0]]
HChoices(d) == {Zeros(d, d), Diag1(d), Ones(d, d), Identity(d)}
Unit1(d) == [a \in 1..d |-> <<IF a = 1 THEN 1 ELSE 0>>]
FChoices(d) == {Zeros(d, 1), Ones(d, 1), Unit1(d)}
Objectives(d) == HChoices(d) \X FChoices(d)
ObjLists(d) == UNION {[1..len -> Objectives(d)] : len \in 0..MaxK}
BoundChoices(d) == {<<>>, <<Neg(Ones(d, 1)), Zeros(d, 1)>>, <<Zeros(d, 1), Ones(d, 1)>>}

HOf(L) == [j \in 1..Len(L) |-> L[j][1]]
FOf(L) == [j \in 1..Len(L) |-> L[j][2]]
WellFormedInputs == UNION {{[H |-> HOf(L), f |-> FOf(L), bounds |-> b] :
                                L \in ObjLists(d), b \in BoundChoices(d)} : d \in Dims}

\* inputs that break the documented shapes: one H[p] or f[p] of another size,
\* or one more vector than matrices
WrongH(d) == {Identity(e) : e \in Dims \ {d}} \cup {Ones(d, d + 1)}
WrongF(d) == {Ones(e, 1) : e \in Dims \ {d}}
DefectBase(d) == {L \in ObjLists(d) : Len(L) >= 1 /\
                     \A j \in 1..Len(L) : L[j][1] \in {Diag1(d), Identity(d)} /\ L[j][2] = Ones(d, 1)}
DefectiveInputs ==
    UNION {UNION {
        {[H |-> [HOf(L) EXCEPT ![p] = M], f |-> FOf(L), bounds |-> <<>>] :
            p \in 1..Len(L), M \in WrongH(d)}
        \cup {[H |-> HOf(L), f |-> [FOf(L) EXCEPT ![p] = v], bounds |-> <<>>] :
            p \in 1..Len(L), v \in WrongF(d)}
        \cup {[H |-> HOf(L), f |-> Append(FOf(L), Ones(d, 1)), bounds |-> <<>>]}
      : L \in DefectBase(d)} : d \in Dims}
Inputs == WellFormedInputs \cup DefectiveInputs

\* ---------------------------------------------------------------- the steps of NullSpaceMethod
Unbound == <<>>
NoBounds == <<>>

\* variant: the gradient is taken at the origin instead of at Z
RestrictF_atOrigin(Nn, Hl, Zz, fl) == Dot(Transpose(Nn), Add(Dot(Hl, Zeros(Rows(Zz), Cols(Zz))), fl))
RestrictF(Nn, Hl, Zz, fl) == Dot(Transpose(Nn), Add(Dot(Hl, Zz), fl))
RestrictH(Nn, Hl) == Dot(Transpose(Nn), Dot(Hl, Nn))
RestrictOK(Nn, Hl, Zz, fl) ==
    /\ DotOK(Hl, Zz)
    /\ AddOK(Dot(Hl, Zz), fl)
    /\ DotOK(Transpose(Nn), Add(Dot(Hl, Zz), fl))
    /\ DotOK(Hl, Nn)
    /\ DotOK(Transpose(Nn), Dot(Hl, Nn))
InitialN(d) == Identity(d)
\* variant: Z survives from the previous call
InitialZ_stale(f0) == IF prev # <<>> /\ prev[1].ret # <<>> /\ Shape(prev[1].ret[1]) = Shape(f0)
                      THEN prev[1].ret[1] ELSE Zeros(Rows(f0), Cols(f0))
InitialZ(f0) == Zeros(Rows(f0), Cols(f0))
AsColumn(y) == IF y.ndim < 2 THEN Reshape(y.data) ELSE y.data
\* variant: the lifted solution replaces Z instead of accumulating
UpdateZ_replace(Nn, Yc, Zz) == Add(Dot(Nn, Yc), Zeros(Rows(Zz), Cols(Zz)))
UpdateZ(Nn, Yc, Zz) == Add(Dot(Nn, Yc), Zz)
\* variant: the loop never breaks
ExitsEarly_never(B) == FALSE
ExitsEarly(B) == Cols(B) = 0
\* variant: the basis is not narrowed
Narrow_keep(Nn, B) == Nn
Narrow(Nn, B) == Dot(Nn, B)
BoundsOrigin(Nn) == Reshape(Dot(Nn, Zeros(Cols(Nn), 1)))
NextBounds(b, Nn) ==
    IF b # NoBounds
    THEN <<Neg(BoundsOrigin(Nn)), OneMinus(BoundsOrigin(Nn))>>
    ELSE b
\* variant: the loop stops one level short
Levels_short == Min2(Len(H), Len(f)) - 1
Levels == Min2(Len(H), Len(f))      \* izip stops at the shorter list
\* an exception of the collaborator is not caught: it leaves the function
\* variant: a failed call is caught and retried
AfterCall_retry(ans) == IF ans.raised THEN "call" ELSE "update"
AfterCall(ans) == IF ans.raised THEN "raised" ELSE "update"

Init ==
    /\ \E inp \in Inputs : H = inp.H /\ f = inp.f /\ callerBounds = inp.bounds
    /\ pc = "entry" /\ err = "" /\ ret = <<>>
    /\ n = 0 /\ N = Unbound /\ Z = Unbound /\ bounds = Unbound /\ i = 0
    /\ Hi = Unbound /\ fi = Unbound /\ Ni = Unbound /\ Y = Unbound
    /\ consulted = {} /\ callLog = <<>> /\ Nhist = <<>> /\ niCols = <<>>
    /\ policy \in FreePolicies /\ prev = <<>>

ShapesAsserted ==
    /\ Len(H) > 0
    /\ Len(H) = Len(f)
    /\ Rows(H[1]) = Cols(H[1])
    /\ Rows(H[1]) = Rows(f[1])

Validate ==
    /\ pc = "entry"
    /\ IF ShapesAsserted
       THEN /\ n' = Rows(H[1])
            /\ N' = InitialN(Rows(H[1]))
            /\ Z' = InitialZ(f[1])
            /\ bounds' = callerBounds
            /\ i' = 0
            /\ pc' = "loop"
            /\ err' = err
       ELSE /\ pc' = "raised"
            /\ err' = "AssertionError"
            /\ UNCHANGED <<n, N, Z, bounds, i>>
    /\ UNCHANGED <<H, f, callerBounds, ret, Hi, fi, Ni, Y, consulted, callLog,
                   Nhist, niCols, policy, prev>>

Restrict ==
    /\ pc = "loop"
    /\ i < Levels
    /\ consulted' = consulted \cup {i}
    /\ IF RestrictOK(N, H[i + 1], Z, f[i + 1])
       THEN /\ fi' = RestrictF(N, H[i + 1], Z, f[i + 1])
            /\ Hi' = RestrictH(N, H[i + 1])
            /\ pc' = "call"
            /\ err' = err
       ELSE /\ pc' = "raised"
            /\ err' = "ValueError"
            /\ UNCHANGED <<Hi, fi>>
    /\ UNCHANGED <<H, f, callerBounds, ret, n, N, Z, bounds, i, Ni, Y, callLog,
                   Nhist, niCols, policy, prev>>

CallCollaborator ==
    /\ pc = "call"
    /\ \E ans \in affine_null_space(Hi, Neg(fi), bounds) :
          /\ callLog' = Append(callLog, [level |-> i, H |-> Hi, rhs |-> Neg(fi),
                                         bounds |-> bounds, N |-> N, Z |-> Z, ans |-> ans])
          /\ pc' = AfterCall(ans)
          /\ IF ans.raised
             THEN /\ err' = "FactorizationFailure"
                  /\ UNCHANGED <<Ni, Y>>
             ELSE /\ err' = err
                  /\ Ni' = ans.Ni
                  /\ Y' = [data |-> ans.Y, ndim |-> ans.ndim]
    /\ UNCHANGED <<H, f, callerBounds, ret, n, N, Z, bounds, i, Hi, fi, consulted,
                   Nhist, niCols, policy, prev>>

Update ==
    /\ pc = "update"
    /\ Z' = UpdateZ(N, AsColumn(Y), Z)
    /\ Nhist' = Append(Nhist, N)
    /\ niCols' = Append(niCols, Cols(Ni))
    /\ IF ExitsEarly(Ni)
       THEN /\ pc' = "break"
            /\ UNCHANGED <<N, bounds, i>>
       ELSE /\ N' = Narrow(N, Ni)
            /\ bounds' = NextBounds(bounds, N')
            /\ i' = i + 1
            /\ pc' = "loop"
    /\ UNCHANGED <<H, f, callerBounds, err, ret, n, Hi, fi, Ni, Y, consulted, callLog,
                   policy, prev>>

Return ==
    /\ \/ pc = "loop" /\ i >= Levels
       \/ pc = "break"
    /\ ret' = <<Z>>
    /\ pc' = "done"
    /\ UNCHANGED <<H, f, callerBounds, err, n, N, Z, bounds, i, Hi, fi, Ni, Y, consulted,
                   callLog, Nhist, niCols, policy, prev>>

Next == Validate \/ Restrict \/ CallCollaborator \/ Update \/ Return

Spec == Init /\ [][Next]_vars

\* The interpreter runs the function to its end: a step that can be taken is
\* eventually taken.  Termination is checked for a smaller family of inputs
\* and for the collaborators that follow a fixed rule.
LiveLists(d) == UNION {[1..len -> {Zeros(d, d), Diag1(d), Identity(d)} \X {Zeros(d, 1), Unit1(d)}] :
                          len \in 0..MaxK}
LiveInputs == UNION {{[H |-> HOf(L), f |-> FOf(L), bounds |-> b] :
                        L \in LiveLists(d), b \in {NoBounds, <<Neg(Ones(d, 1)), Zeros(d, 1)>>}} : d \in Dims}
LivePolicies == {[y |-> "least", basis |-> "greatest", ndim |-> 2],
                 [y |-> "greatest", basis |-> "least", ndim |-> 1]}
InitLive ==
    /\ \E inp \in LiveInputs \cup DefectiveInputs :
          H = inp.H /\ f = inp.f /\ callerBounds = inp.bounds
    /\ pc = "entry" /\ err = "" /\ ret = <<>>
    /\ n = 0 /\ N = Unbound /\ Z = Unbound /\ bounds = Unbound /\ i = 0
    /\ Hi = Unbound /\ fi = Unbound /\ Ni = Unbound /\ Y = Unbound
    /\ consulted = {} /\ callLog = <<>> /\ Nhist = <<>> /\ niCols = <<>>
    /\ policy \in LivePolicies /\ prev = <<>>
FairSpec == InitLive /\ [][Next]_vars /\ WF_vars(Next)

\* ---------------------------------------------------------------- a caller that calls twice
\* The second call repeats the first call's arguments (p = -1) or passes the
\* first call's lists with a zero objective inserted at position p.
PairHChoices(d) == {Diag1(d), Ones(d, d), Identity(d)}
PairFChoices(d) == {Zeros(d, 1), Unit1(d)}
PairLists(d) == UNION {[1..len -> PairHChoices(d) \X PairFChoices(d)] : len \in 0..MaxK}
PairInputs == UNION {{[H |-> HOf(L), f |-> FOf(L), bounds |-> b] :
                        L \in PairLists(d), b \in BoundChoices(d)} : d \in Dims}
InsertAt(L, p, x) == SubSeq(L, 1, p) \o <<x>> \o SubSeq(L, p + 1, Len(L))
SecondInputs(Hl, fl) ==
    {[H |-> Hl, f |-> fl, p |-> 0 - 1]} \cup
    (IF Len(Hl) >= 1 /\ Len(fl) = Len(Hl)
     THEN {[H |-> InsertAt(Hl, p, Zeros(Rows(fl[1]), Rows(fl[1]))),
            f |-> InsertAt(fl, p, Zeros(Rows(fl[1]), 1)), p |-> p] : p \in 0..Len(Hl)}
     ELSE {})

InitTwo ==
    /\ \E inp \in PairInputs : H = inp.H /\ f = inp.f /\ callerBounds = inp.bounds
    /\ pc = "entry" /\ err = "" /\ ret = <<>>
    /\ n = 0 /\ N = Unbound /\ Z = Unbound /\ bounds = Unbound /\ i = 0
    /\ Hi = Unbound /\ fi = Unbound /\ Ni = Unbound /\ Y = Unbound
    /\ consulted = {} /\ callLog = <<>> /\ Nhist = <<>> /\ niCols = <<>>
    /\ policy \in DetPolicies /\ prev = <<>>

CallAgain ==
    /\ pc \in {"done", "raised"}
    /\ prev = <<>>
    /\ \E inp \in SecondInputs(H, f) :
          /\ H' = inp.H
          /\ f' = inp.f
          /\ prev' = <<[H |-> H, f |-> f, bounds |-> callerBounds, pc |-> pc, err |-> err,
                        ret |-> ret, p |-> inp.p]>>
    /\ pc' = "entry" /\ err' = "" /\ ret' = <<>>
    /\ n' = 0 /\ N' = Unbound /\ Z' = Unbound /\ bounds' = Unbound /\ i' = 0
    /\ Hi' = Unbound /\ fi' = Unbound /\ Ni' = Unbound /\ Y' = Unbound
    /\ consulted' = {} /\ callLog' = <<>> /\ Nhist' = <<>> /\ niCols' = <<>>
    /\ UNCHANGED <<callerBounds, policy>>

NextTwo == Validate \/ Restrict \/ CallCollaborator \/ Update \/ Return \/ CallAgain
SpecTwo == InitTwo /\ [][NextTwo]_vars

\* ---------------------------------------------------------------- properties
Terminated == pc \in {"done", "raised"}
ShapedLevel(l) == Shape(H[l]) = <<n, n>> /\ Shape(f[l]) = <<n, 1>>
\* p-th entry of the gradient H[l] * Zz + f[l] of level l at the point Zz
Grad(l, Zz, p) == SumSeq([q \in 1..n |-> H[l][p][q] * Zz[q][1]]) + f[l][p][1]
\* a-th entry of B^T * (H[l] * Zz + f[l])
RestrictedGrad(B, l, Zz, a) == SumSeq([p \in 1..n |-> B[p][a] * Grad(l, Zz, p)])
\* c-th entry of the particular solution of an answer, flat or column
YEntry(ans, c) == IF ans.ndim = 2 THEN ans.Y[c][1] ELSE ans.Y[1][c]
Lifted(B, ans, r) == SumSeq([c \in 1..Cols(B) |-> B[r][c] * YEntry(ans, c)])

\* C1: at every moment, for every level l already processed, the gradient of
\* level l at the current Z, restricted to the basis that was in effect when
\* level l was processed, is zero: later updates of Z do not disturb it.
C1_RestrictedGradientStaysZero ==
    \A l \in 1..Len(Nhist) : ShapedLevel(l) =>
        \A a \in 1..Cols(Nhist[l]) : RestrictedGrad(Nhist[l], l, Z, a) = 0
\* a run in which level 0 moved Z, level 1 moved it again, and Z was returned
C1_Witness ==
    /\ pc = "done" /\ Len(Nhist) >= 2 /\ ShapedLevel(1) /\ ShapedLevel(2)
    /\ callLog[2].Z # Zeros(n, 1)
    /\ Z # callLog[2].Z

\* C10: every collaborator call receives H' = N^T H[i] N and the right-hand
\* side -N^T (H[i] Z + f[i]) for the state (N, Z) left by the previous level
\* (identity and zero at level 0, hence H[0] and -f[0]); the state entering a
\* level is the previous Z plus the previous, un-narrowed N times Y; N and Z
\* keep n rows.
C10_ArgsOf(e) ==
    LET l == e.level + 1
        m == Cols(e.N)
    IN  /\ Rows(e.N) = n /\ Shape(e.Z) = <<n, 1>>
        /\ Shape(e.H) = <<m, m>> /\ Shape(e.rhs) = <<m, 1>>
        /\ \A a, b \in 1..m : e.H[a][b] =
              SumSeq([p \in 1..n |-> SumSeq([q \in 1..n |-> e.N[p][a] * H[l][p][q] * e.N[q][b]])])
        /\ \A a \in 1..m : e.rhs[a][1] = 0 - RestrictedGrad(e.N, l, e.Z, a)
C10_PerLevelStep ==
    /\ \A j \in 1..Len(callLog) : ShapedLevel(callLog[j].level + 1) => C10_ArgsOf(callLog[j])
    /\ Len(callLog) >= 1 /\ ShapedLevel(1) =>
          /\ callLog[1].N = Identity(n) /\ callLog[1].Z = Zeros(n, 1)
          /\ callLog[1].H = H[1] /\ callLog[1].rhs = Neg(f[1])
    /\ \A j \in 2..Len(callLog) : \A r \in 1..n :
          callLog[j].Z[r][1] = callLog[j - 1].Z[r][1] + Lifted(callLog[j - 1].N, callLog[j - 1].ans, r)
    /\ (Len(Nhist) = Len(callLog) /\ Len(callLog) >= 1) =>
          /\ Shape(Z) = <<n, 1>> /\ Rows(N) = n
          /\ \A r \in 1..n : Z[r][1] = callLog[Len(callLog)].Z[r][1]
                + Lifted(callLog[Len(callLog)].N, callLog[Len(callLog)].ans, r)
\* a second-level call made with a narrowed basis and a non-zero Z
C10_Witness ==
    /\ Len(callLog) >= 2 /\ ShapedLevel(1) /\ ShapedLevel(2)
    /\ Cols(callLog[2].N) < n
    /\ callLog[2].Z # Zeros(n, 1)
    /\ callLog[2].rhs # Zeros(Cols(callLog[2].N), 1)
    /\ Len(Nhist) = 2 /\ Z # callLog[2].Z

\* C4: within a call the number of columns of N starts at n (identity), never
\* increases from one step to the next, and after each level that does not
\* exit equals the number of columns of the Ni returned for that level.
C4_MonotoneRestriction ==
    [][/\ (pc = "entry" /\ pc' = "loop") => (N' = Identity(n') /\ Cols(N') = n')
       /\ (pc \notin {"entry", "done", "raised"} /\ pc' # "entry") => Cols(N') <= Cols(N)
       /\ (pc = "update" /\ pc' = "loop") => (Cols(N') = Cols(Ni) /\ Cols(Ni) <= Cols(N))
       /\ (pc = "update" /\ pc' = "break") => N' = N]_vars
\* two levels processed, the first of which narrowed the basis
C4_Witness ==
    /\ pc = "loop" /\ i = 2 /\ Len(niCols) = 2
    /\ niCols[1] < n /\ niCols[2] <= niCols[1] /\ Cols(N) = niCols[2]

\* C2: when the Ni of level j has no columns, no objective after j is pulled,
\* no further collaborator call is made, and Z (the returned value) is the Z
\* entering level j plus N times the Y of level j.
C2_EarlyExit ==
    (Len(niCols) >= 1 /\ niCols[Len(niCols)] = 0) =>
        LET j == Len(niCols) - 1
        IN  /\ pc \in {"break", "done"}
            /\ consulted = 0..j
            /\ Len(callLog) = j + 1
            /\ \A r \in 1..n : Z[r][1] = callLog[j + 1].Z[r][1]
                   + Lifted(callLog[j + 1].N, callLog[j + 1].ans, r)
            /\ pc = "done" => ret = <<Z>>
\* a return after an exit at level 0 that left later objectives unread, with
\* level 0's Y in Z
C2_Witness ==
    /\ pc = "done" /\ niCols = <<0>> /\ Levels >= 2
    /\ Z # Zeros(n, 1) /\ ret = <<Z>>

\* C6: when the collaborator raises at level i the call ends with that error:
\* no Z is returned, the failing call is the last one, the failing level's
\* update is not made and no later level is pulled; a call ends either with
\* a returned Z and no error, or with an error and no Z.
C6_FactorizationFailure ==
    /\ err = "FactorizationFailure" =>
          /\ pc = "raised" /\ ret = <<>>
          /\ Len(callLog) = i + 1 /\ callLog[i + 1].ans.raised
          /\ consulted = 0..i /\ Len(Nhist) = i
    /\ \A j \in 1..Len(callLog) : callLog[j].ans.raised =>
          (j = Len(callLog) /\ err = "FactorizationFailure")
    /\ ret # <<>> => (pc = "done" /\ err = "" /\ ret = <<Z>>)
    /\ pc = "raised" => (ret = <<>> /\ err # "")
    /\ pc = "done" => ret # <<>>
\* the collaborator raised at a level after Z had already moved
C6_Witness ==
    /\ pc = "raised" /\ err = "FactorizationFailure"
    /\ i >= 1 /\ Z # Zeros(n, 1) /\ ret = <<>>

\* C9: every call terminates; a call that returns has invoked the
\* collaborator once per processed level, in the order 0, 1, 2, ..., and
\* min(k, j+1) times where j is the first level whose Ni has no columns (k
\* times if there is none); with well-shaped input only a failure of the
\* collaborator prevents the return, and a non-trivial final null space
\* does not.
WellShaped == ShapesAsserted /\ \A l \in 1..Len(H) :
                 Shape(H[l]) = <<Rows(H[1]), Rows(H[1])>> /\ Shape(f[l]) = <<Rows(H[1]), 1>>
TrivialLevels == {j \in 1..Len(callLog) : ~callLog[j].ans.raised /\ Cols(callLog[j].ans.Ni) = 0}
ExpectedCalls == IF TrivialLevels = {} THEN Len(H)
                 ELSE Min2(Len(H), CHOOSE j \in TrivialLevels : \A q \in TrivialLevels : j <= q)
C9_CallsAtReturn ==
    /\ pc = "done" =>
          /\ Len(H) >= 1
          /\ Len(callLog) = ExpectedCalls
          /\ \A j \in 1..Len(callLog) : callLog[j].level = j - 1
          /\ ret = <<Z>> /\ err = ""
    /\ (pc = "raised" /\ WellShaped) => err = "FactorizationFailure"
C9_SequencingAndTermination == []C9_CallsAtReturn /\ <>Terminated
\* all of two or more levels processed, the final null space non-trivial,
\* and Z returned
C9_Witness ==
    /\ pc = "done" /\ Len(H) >= 2 /\ Len(callLog) = Len(H)
    /\ TrivialLevels = {} /\ Cols(N) >= 1 /\ ret = <<Z>>

\* C5 (as claimed): input with a level whose H[i] is not n-by-n or whose f[i]
\* is not n-by-1, or with lists of different lengths, never reaches the
\* collaborator and never returns a Z.
Malformed == \/ Len(H) # Len(f)
             \/ Len(H) >= 1 /\ \E l \in 1..Len(H) : Shape(H[l]) # <<Rows(H[1]), Rows(H[1])>>
             \/ Len(H) >= 1 /\ \E l \in 1..Len(f) : Shape(f[l]) # <<Rows(H[1]), 1>>
C5_DimensionValidation == Malformed => (callLog = <<>> /\ ret = <<>>)

\* C7 (as claimed): with bounds supplied, the collaborator gets the caller's
\* bounds at level 0 and (-Z, 1-Z) for the current Z at every later level;
\* without bounds it gets None at every level.
C7_BoundsThreading ==
    \A j \in 1..Len(callLog) :
        callLog[j].bounds = IF callerBounds = NoBounds THEN NoBounds
                            ELSE IF j = 1 THEN callerBounds
                            ELSE <<Neg(callLog[j].Z), OneMinus(callLog[j].Z)>>

\* C8: a call never changes the caller's lists, their matrices and vectors,
\* or the caller's bounds; and a second call with the same arguments ends
\* as the first did, with an equal Z or the same error.
C8_SameOutcome ==
    (prev # <<>> /\ prev[1].p = 0 - 1 /\ Terminated) =>
        (pc = prev[1].pc /\ ret = prev[1].ret /\ err = prev[1].err)
ZeroLevelTrivial ==
    \A j \in 1..Len(callLog) : callLog[j].level = prev[1].p =>
        /\ ~callLog[j].ans.raised
        /\ callLog[j].ans.Ni = Identity(Cols(callLog[j].N))
        /\ \A c \in 1..Cols(callLog[j].N) : YEntry(callLog[j].ans, c) = 0
InsertedRun == /\ prev # <<>> /\ prev[1].p >= 0 /\ prev[1].pc = "done"
               /\ Terminated /\ ZeroLevelTrivial
UnitBox == <<Zeros(Rows(f[1]), 1), Ones(Rows(f[1]), 1)>>
\* C3 (as claimed): for any bounds and any p the second call returns the same Z.
C3_ZeroLevelAnyBounds == InsertedRun => (pc = "done" /\ ret = prev[1].ret)
\* C3 (amended): the second call returns the same Z when no bounds are
\* supplied, or the bounds are the unit box (0, 1), or p >= 1.
C3_ZeroLevelInsertion ==
    (InsertedRun /\ (callerBounds = NoBounds \/ callerBounds = UnitBox \/ prev[1].p >= 1)) =>
        (pc = "done" /\ ret = prev[1].ret)
\* bounds supplied, the zero objective inserted at position 1 and processed
\* with a non-zero Z, a later level processed after it, and Z returned
C3_Witness ==
    /\ InsertedRun /\ prev[1].p = 1 /\ callerBounds # NoBounds /\ pc = "done"
    /\ Len(callLog) >= 3 /\ callLog[2].Z # Zeros(n, 1) /\ Z # callLog[3].Z

====
